---- MODULE Spec2Model ----
(***************************************************************************)
(* Model of the change-detection scheduler of src/main.py: monitor_loop,   *)
(* check_with_requests, check_with_selenium, ensure_driver, make_driver    *)
(* and simple_hash.                                                        *)
(*                                                                         *)
(* Time is in seconds, as datetime.utcnow() and time.sleep() see it.       *)
(* A Python value that may be None is a sequence of length 0 (None) or 1.  *)
(* A text is a sequence of blocks of 5000 characters, so that text[:5000]  *)
(* is its first block and html[:10000] its first two.  A 64-bit hash is a  *)
(* sequence of four 16-bit limbs, most significant first.                  *)
(***************************************************************************)
EXTENDS Integers, Sequences, FiniteSets, TLC

None == <<>>

Some(v) == <<v>>

Val(o) == o[1]

(***************************************************************************)
(* Bounds of the exploration.                                              *)
(***************************************************************************)
MaxClock == 24

MaxInstances == 2

LongDelay == 8

MaxFailed == 3

(***************************************************************************)
(* Program constants.                                                      *)
(***************************************************************************)
OneDay == 86400

SitePause == 2

RoundFloor == 5

StaggerStep == 1

SettleDelay == 1

ReqPrefix == 1

SelPrefix == 2

\* how much longer than asked a sleep, a fetch or a render may take
Delays == {0, LongDelay}

(***************************************************************************)
(* SITES: the configuration list.  It is an input of the program ("add     *)
(* more..."); the model runs the list of the source and three further lists  *)
(* with short intervals, two rendering sites and an interval above a day.  *)
(***************************************************************************)
Site(n, i, js) == [name |-> n, interval |-> i, needs_js |-> js]

SourceSites == << Site("StaticSite", 300, FALSE), Site("JSApp", 600, TRUE) >>

ShortSites == << Site("StaticSite", 6, FALSE), Site("JSApp", 7, TRUE) >>

RenderedSites == << Site("JSApp", 7, TRUE), Site("JSApp2", 9, TRUE) >>

WeeklySites == << Site("Weekly", 604800, FALSE), Site("StaticSite", 9, FALSE) >>

Configs == {SourceSites, ShortSites, RenderedSites, WeeklySites}

Names(cfg) == {cfg[i].name : i \in 1..Len(cfg)}

(***************************************************************************)
(* simple_hash.  hash(str) of CPython is a keyed 64-bit hash fixed for the *)
(* life of the process; PyHash is one such function on the texts of the    *)
(* model (hash("") is 0 for every key; "a" and "c" agree on the low 32     *)
(* bits).                                                                  *)
(***************************************************************************)
PyHash(text) ==
    CASE text = <<>>           -> <<0, 0, 0, 0>>
      [] text = <<"a">>        -> <<65535, 65535, 40000, 17>>
      [] text = <<"b">>        -> <<0, 9, 3, 4242>>
      [] text = <<"c">>        -> <<12, 7, 40000, 17>>
      [] text = <<"a", "x">>   -> <<1, 2, 3, 4>>
      [] text = <<"a", "y">>   -> <<32768, 0, 77, 5>>
      [] OTHER                 -> <<0, 0, Len(text), 1>>

\* h & 0xffffffff: the low 32 bits
MaskLow32(h) == <<h[3], h[4]>>

simple_hash(text) == MaskLow32(PyHash(text))

Min(a, b) == IF a < b THEN a ELSE b

\* text[:n], n counted in blocks
Prefix(text, n) == SubSeq(text, 1, Min(n, Len(text)))

(***************************************************************************)
(* Exceptions.  Everything the HTTP client and the browser driver raise is *)
(* a subclass of Exception, which is what the three handlers name.         *)
(***************************************************************************)
TransportExceptions == {"ConnectionError", "Timeout"}

DriverExceptions == {"WebDriverException", "TimeoutException"}

PyExceptions == TransportExceptions \cup DriverExceptions

\* "except Exception as e" of check_with_requests
RequestsExcept(e) == e \in PyExceptions

\* a handler of check_with_selenium that names one class of the driver only
SeleniumExceptNarrow(e) == e = "TimeoutException"

\* "except Exception as e" of check_with_selenium
SeleniumExcept(e) == e \in PyExceptions

\* a handler of ensure_driver that names one class of the driver only
EnsureExceptNarrow(e) == e = "TimeoutException"

\* "except Exception as e" of ensure_driver
EnsureExcept(e) == e \in PyExceptions

VARIABLES
    SITES,      \* the configuration list
    State,      \* name -> [last_run, etag, last_hash]
    driver,     \* the shared handle: None or Some(instance id)
    clock,      \* datetime.utcnow()
    pc,         \* position of monitor_loop
    idx,        \* index in SITES of the site of the for loop
    start,      \* local start of monitor_loop
    browsers,   \* ids of the browser instances that are running
    made,       \* number of browser instances started so far
    quitted,    \* ids of the instances on which quit() was called
    out,        \* what the last check returned and did
    checking,   \* names of the sites whose check was called and has not returned
    origin,     \* name -> the ETag header of the response that last_hash is of
    flask       \* the keep-alive thread: "listening" or "handling" a GET /

vars == <<SITES, State, driver, clock, pc, idx, start, browsers, made, quitted, out,
          checking, origin, flask>>

site == SITES[idx]

\* out: the pair (changed, reason) the check returned, and what the check did:
\* status and supplied are the status code and the ETag header of the response
\* (0 and None without one), digest the value simple_hash returned, built
\* whether make_driver was called ("no") and returned ("ok") or raised
\* ("failed"), used the handle d.get was called on,
\* failed the number of calls of make_driver that failed in a row (counted
\* up to MaxFailed),
\* report the line monitor_loop printed for the check.
NoOut == [name |-> "", changed |-> FALSE, reason |-> "", status |-> 0,
          digest |-> None, supplied |-> None, built |-> "no", used |-> None,
          failed |-> 0, report |-> ""]

Init ==
    /\ SITES \in Configs
    /\ State = [n \in Names(SITES) |-> [last_run |-> None, etag |-> None, last_hash |-> None]]
    /\ driver = None
    /\ clock = 0
    /\ pc = "stagger"
    /\ idx = 1
    /\ start = None
    /\ browsers = {}
    /\ made = 0
    /\ quitted = {}
    /\ out = NoOut
    /\ checking = {}
    /\ origin = [n \in Names(SITES) |-> None]
    /\ flask = "listening"

\* time.sleep(s) and any other step that takes at least s seconds
Elapse(s, d) ==
    /\ d \in Delays
    /\ clock + s + d <= MaxClock
    /\ clock' = clock + s + d

(***************************************************************************)
(* monitor_loop, lines 124-127 and 130: the stagger sleeps (0 s before the *)
(* first site, 1 s before each other one) and the start of the first round.*)
(***************************************************************************)
Stagger ==
    /\ pc = "stagger"
    /\ \E d \in Delays : Elapse((Len(SITES) - 1) * StaggerStep, d)
    /\ start' = Some(clock')
    /\ idx' = 1
    /\ pc' = "eval"
    /\ UNCHANGED <<SITES, State, driver, browsers, made, quitted, out, checking, origin, flask>>

\* the end of the body of "for site in SITES": the next site, or lines 153-155
AfterSite == IF idx < Len(SITES) THEN "eval" ELSE "sleep"

AfterIdx == IF idx < Len(SITES) THEN idx + 1 ELSE idx

\* LastOf as it would be if last_run were never found in the state
LastOfDefault(st, now) == now - OneDay

\* line 135: state.get("last_run") or (now - timedelta(days=1))
LastOf(st, now) == IF st.last_run # None THEN Val(st.last_run) ELSE now - OneDay

\* line 137
Due(st, now, s) == now - LastOf(st, now) >= s.interval

\* Evaluate as it would be if last_run were set before the test of line 137
EvaluateStamps ==
    /\ pc = "eval"
    /\ LET now == clock
           st == State[site.name]
       IN /\ State' = [State EXCEPT ![site.name].last_run = Some(now)]
          /\ IF Due(st, now, site)
             THEN /\ pc' = "check"
                  /\ idx' = idx
                  /\ checking' = checking \cup {site.name}
             ELSE /\ pc' = AfterSite
                  /\ idx' = AfterIdx
                  /\ checking' = checking
    /\ UNCHANGED <<SITES, driver, clock, start, browsers, made, quitted, out, origin, flask>>

\* Evaluate as it would be if the check were started in a thread of its own
\* and the loop went on to the next site
EvaluateAsync ==
    /\ pc = "eval"
    /\ LET now == clock
           st == State[site.name]
       IN IF Due(st, now, site)
          THEN /\ State' = [State EXCEPT ![site.name].last_run = Some(now)]
               /\ checking' = checking \cup {site.name}
          ELSE /\ State' = State
               /\ checking' = checking
    /\ pc' = AfterSite
    /\ idx' = AfterIdx
    /\ UNCHANGED <<SITES, driver, clock, start, browsers, made, quitted, out, origin, flask>>

(***************************************************************************)
(* monitor_loop, lines 131-139: one site is evaluated; when it is due its  *)
(* last_run is set before the check is made.                               *)
(***************************************************************************)
Evaluate ==
    /\ pc = "eval"
    /\ LET now == clock
           st == State[site.name]
       IN IF Due(st, now, site)
          THEN /\ State' = [State EXCEPT ![site.name].last_run = Some(now)]
               /\ pc' = "check"
               /\ idx' = idx
               /\ checking' = checking \cup {site.name}
          ELSE /\ State' = State
               /\ pc' = AfterSite
               /\ idx' = AfterIdx
               /\ checking' = checking
    /\ UNCHANGED <<SITES, driver, clock, start, browsers, made, quitted, out, origin, flask>>

(***************************************************************************)
(* What the origin server may answer to requests.get.  A 304 is an answer  *)
(* to a conditional request only.                                          *)
(***************************************************************************)
ReqBodies == { <<"a">>, <<"a", "x">>, <<"b">> }

ETags == {"e1", "e2"}

Headers == {None} \cup {Some(t) : t \in ETags}

Responses(conditional) ==
    {[kind |-> "raise", exc |-> e, status |-> 0, text |-> <<>>, etag |-> None] :
        e \in TransportExceptions}
    \cup {[kind |-> "http", exc |-> "", status |-> c, text |-> <<>>, etag |-> t] :
        c \in {404, 500}, t \in Headers}
    \cup {[kind |-> "http", exc |-> "", status |-> 304, text |-> <<>>, etag |-> t] :
        t \in (IF conditional THEN Headers ELSE {})}
    \cup {[kind |-> "http", exc |-> "", status |-> 200, text |-> b, etag |-> t] :
        b \in ReqBodies, t \in Headers}

\* line 72: if state.get("etag")
SendsIfNoneMatch(st) == st.etag # None /\ Val(st.etag) # ""

\* a return of a check: the new state of the site, the pair returned, the
\* digest computed, and esc, the exception that left the function (None: none)
Ret(st, changed, reason, digest) ==
    [state |-> st, changed |-> changed, reason |-> reason, digest |-> digest, esc |-> None]

Raise(st, e) ==
    [state |-> st, changed |-> FALSE, reason |-> "", digest |-> None, esc |-> Some(e)]

\* check_with_requests as it would be if a status other than 200 and 304
\* dropped the stored validator
check_with_requests_drops(st, r) ==
    IF r.kind = "raise"
    THEN IF RequestsExcept(r.exc) THEN Ret(st, FALSE, "error", None) ELSE Raise(st, r.exc)
    ELSE IF r.status = 304 THEN Ret(st, FALSE, "not modified", None)
    ELSE IF r.status # 200 THEN Ret([st EXCEPT !.etag = None], FALSE, "status", None)
    ELSE LET h == simple_hash(Prefix(r.text, ReqPrefix))
         IN IF st.last_hash = Some(h)
            THEN Ret(st, FALSE, "no change", Some(h))
            ELSE Ret([st EXCEPT !.last_hash = Some(h),
                                !.etag = IF r.etag # None THEN r.etag ELSE @],
                     TRUE, "changed", Some(h))

\* check_with_requests as it would be if the ETag header were stored as soon
\* as the response is there, before the status is looked at
check_with_requests_early(st, r) ==
    LET st1 == IF r.etag # None THEN [st EXCEPT !.etag = r.etag] ELSE st
    IN IF r.kind = "raise"
       THEN IF RequestsExcept(r.exc) THEN Ret(st, FALSE, "error", None) ELSE Raise(st, r.exc)
       ELSE IF r.status = 304 THEN Ret(st1, FALSE, "not modified", None)
       ELSE IF r.status # 200 THEN Ret(st1, FALSE, "status", None)
       ELSE LET h == simple_hash(Prefix(r.text, ReqPrefix))
            IN IF st.last_hash = Some(h)
               THEN Ret(st1, FALSE, "no change", Some(h))
               ELSE Ret([st1 EXCEPT !.last_hash = Some(h)], TRUE, "changed", Some(h))

\* check_with_requests as it would be if a 304 were treated as a 200
check_with_requests_hashes304(st, r) ==
    IF r.kind = "raise"
    THEN IF RequestsExcept(r.exc) THEN Ret(st, FALSE, "error", None) ELSE Raise(st, r.exc)
    ELSE IF r.status \notin {200, 304} THEN Ret(st, FALSE, "status", None)
    ELSE LET h == simple_hash(Prefix(r.text, ReqPrefix))
         IN IF st.last_hash = Some(h)
            THEN Ret(st, FALSE, "no change", Some(h))
            ELSE Ret([st EXCEPT !.last_hash = Some(h),
                                !.etag = IF r.etag # None THEN r.etag ELSE @],
                     TRUE, "changed", Some(h))

(***************************************************************************)
(* check_with_requests, lines 74-91, on the answer r.                      *)
(***************************************************************************)
check_with_requests(st, r) ==
    IF r.kind = "raise"
    THEN IF RequestsExcept(r.exc) THEN Ret(st, FALSE, "error", None) ELSE Raise(st, r.exc)
    ELSE IF r.status = 304 THEN Ret(st, FALSE, "not modified", None)
    ELSE IF r.status # 200 THEN Ret(st, FALSE, "status", None)
    ELSE LET h == simple_hash(Prefix(r.text, ReqPrefix))
         IN IF st.last_hash = Some(h)
            THEN Ret(st, FALSE, "no change", Some(h))
            ELSE Ret([st EXCEPT !.last_hash = Some(h),
                                !.etag = IF r.etag # None THEN r.etag ELSE @],
                     TRUE, "changed", Some(h))

\* Report as it would be if the test of line 144 were dropped
ReportAlways(changed) == "CHANGE detected"

\* lines 144-148: the line printed for the pair (changed, reason)
Report(changed) == IF changed THEN "CHANGE detected" ELSE "No change"

(***************************************************************************)
(* monitor_loop, lines 140-141 and 144-148, for a site with needs_js False.*)
(***************************************************************************)
CheckRequests ==
    /\ pc = "check"
    /\ ~site.needs_js
    /\ \E r \in Responses(SendsIfNoneMatch(State[site.name])), d \in Delays :
        LET c == check_with_requests(State[site.name], r)
        IN /\ Elapse(0, d)
           /\ State' = [State EXCEPT ![site.name] = c.state]
           /\ origin' = [origin EXCEPT ![site.name] =
                            IF c.state.last_hash # State[site.name].last_hash
                            THEN r.etag ELSE @]
           /\ checking' = checking \ {site.name}
           /\ IF c.esc = None
              THEN /\ pc' = "pause"
                   /\ out' = [name |-> site.name, changed |-> c.changed,
                              reason |-> c.reason, status |-> r.status,
                              digest |-> c.digest, supplied |-> r.etag,
                              built |-> "no", used |-> None, failed |-> out.failed,
                              report |-> Report(c.changed)]
              ELSE /\ pc' = "terminated"
                   /\ out' = out
    /\ UNCHANGED <<SITES, driver, idx, start, browsers, made, quitted, flask>>

(***************************************************************************)
(* monitor_loop, line 151: the pause after a check, then the next site.    *)
(***************************************************************************)
Pause ==
    /\ pc = "pause"
    /\ \E d \in Delays : Elapse(SitePause, d)
    /\ pc' = AfterSite
    /\ idx' = AfterIdx
    /\ UNCHANGED <<SITES, State, driver, start, browsers, made, quitted, out, checking, origin, flask>>

\* ToSleep as it would be if elapsed (line 153) were taken off the sleep
ToSleepRemaining ==
    IF RoundFloor - (clock - Val(start)) > 1 THEN RoundFloor - (clock - Val(start)) ELSE 1

\* line 154: to_sleep = max(5, 1)
ToSleep == IF RoundFloor > 1 THEN RoundFloor ELSE 1

(***************************************************************************)
(* monitor_loop, lines 153-155 and 130: the sleep after a round and the    *)
(* start of the next round.                                                *)
(***************************************************************************)
RoundSleep ==
    /\ pc = "sleep"
    /\ \E d \in Delays : Elapse(ToSleep, d)
    /\ start' = Some(clock')
    /\ idx' = 1
    /\ pc' = "eval"
    /\ UNCHANGED <<SITES, State, driver, browsers, made, quitted, out, checking, origin, flask>>

(***************************************************************************)
(* What the browser side may do.  make_driver: webdriver.Chrome (line 45)  *)
(* raises and no browser runs; or it starts a browser and                  *)
(* set_page_load_timeout (line 46) raises; or both succeed.  No browser    *)
(* can be started once MaxInstances were.  A render returns the page or    *)
(* raises.  quit() ends the browser, or raises, and the browser it was to  *)
(* end is then gone or still running.                                      *)
(***************************************************************************)
MakeOutcomes(n) ==
    {[at |-> "chrome", exc |-> e] : e \in DriverExceptions}
    \cup (IF n < MaxInstances
          THEN {[at |-> "timeout", exc |-> e] : e \in DriverExceptions}
               \cup {[at |-> "ok", exc |-> ""]}
          ELSE {})

HtmlBodies == { <<"a", "x">>, <<"a", "x", "z">>, <<"a", "y">> }

RenderOutcomes ==
    {[kind |-> "html", exc |-> "", text |-> b] : b \in HtmlBodies}
    \cup {[kind |-> "raise", exc |-> e, text |-> <<>>] : e \in DriverExceptions}

QuitOutcomes == {"ok", "raises_gone", "raises_running"}

(***************************************************************************)
(* make_driver, lines 44-47.                                               *)
(***************************************************************************)
make_driver(mk, n, running) ==
    CASE mk.at = "chrome"  -> [raised |-> Some(mk.exc), id |-> 0, made |-> n,
                               browsers |-> running]
      [] mk.at = "timeout" -> [raised |-> Some(mk.exc), id |-> 0, made |-> n + 1,
                               browsers |-> running \cup {n + 1}]
      [] mk.at = "ok"      -> [raised |-> None, id |-> n + 1, made |-> n + 1,
                               browsers |-> running \cup {n + 1}]

\* ensure_driver as it would be without "if driver is None"
ensure_driver_always(drv, mk, n, running) ==
    LET m == make_driver(mk, n, running)
    IN IF m.raised = None
       THEN [driver |-> Some(m.id), made |-> m.made, browsers |-> m.browsers,
             built |-> "ok", esc |-> None]
       ELSE IF EnsureExcept(Val(m.raised))
            THEN [driver |-> None, made |-> m.made, browsers |-> m.browsers,
                  built |-> "failed", esc |-> None]
            ELSE [driver |-> drv, made |-> m.made, browsers |-> m.browsers,
                  built |-> "failed", esc |-> m.raised]

(***************************************************************************)
(* ensure_driver, lines 52-59.                                             *)
(***************************************************************************)
ensure_driver(drv, mk, n, running) ==
    IF drv = None
    THEN LET m == make_driver(mk, n, running)
         IN IF m.raised = None
            THEN [driver |-> Some(m.id), made |-> m.made, browsers |-> m.browsers,
                  built |-> "ok", esc |-> None]
            ELSE IF EnsureExcept(Val(m.raised))
                 THEN [driver |-> None, made |-> m.made, browsers |-> m.browsers,
                       built |-> "failed", esc |-> None]
                 ELSE [driver |-> drv, made |-> m.made, browsers |-> m.browsers,
                       built |-> "failed", esc |-> m.raised]
    ELSE [driver |-> drv, made |-> n, browsers |-> running, built |-> "no",
          esc |-> None]

\* lines 110-113: d.quit() in a try with a bare except
Quit(d, q, running) == IF q = "raises_running" THEN running ELSE running \ {d}

\* check_with_selenium as it would be without "global driver": the handle
\* stays after a render error
check_with_selenium_keeps(st, en, rnd, q, torn) ==
    LET d == en.driver
        same == [driver |-> en.driver, browsers |-> en.browsers, quitted |-> torn,
                 used |-> d]
    IN IF en.esc # None
       THEN [ret |-> Raise(st, Val(en.esc)), driver |-> en.driver,
             browsers |-> en.browsers, quitted |-> torn, used |-> None]
       ELSE IF d = None
       THEN [ret |-> Ret(st, FALSE, "no driver", None), driver |-> en.driver,
             browsers |-> en.browsers, quitted |-> torn, used |-> None]
       ELSE IF rnd.kind = "html"
       THEN LET h == simple_hash(Prefix(rnd.text, SelPrefix))
            IN IF st.last_hash = Some(h)
               THEN [ret |-> Ret(st, FALSE, "no change", Some(h))] @@ same
               ELSE [ret |-> Ret([st EXCEPT !.last_hash = Some(h)], TRUE, "changed",
                                 Some(h))] @@ same
       ELSE IF SeleniumExcept(rnd.exc)
       THEN [ret |-> Ret(st, FALSE, "error", None), driver |-> en.driver,
             browsers |-> Quit(Val(d), q, en.browsers),
             quitted |-> torn \cup {Val(d)}, used |-> d]
       ELSE [ret |-> Raise(st, rnd.exc)] @@ same

\* check_with_selenium as it would be if the new fingerprint were not stored
check_with_selenium_forgets(st, en, rnd, q, torn) ==
    LET d == en.driver
        same == [driver |-> en.driver, browsers |-> en.browsers, quitted |-> torn,
                 used |-> d]
    IN IF en.esc # None
       THEN [ret |-> Raise(st, Val(en.esc)), driver |-> en.driver,
             browsers |-> en.browsers, quitted |-> torn, used |-> None]
       ELSE IF d = None
       THEN [ret |-> Ret(st, FALSE, "no driver", None), driver |-> en.driver,
             browsers |-> en.browsers, quitted |-> torn, used |-> None]
       ELSE IF rnd.kind = "html"
       THEN LET h == simple_hash(Prefix(rnd.text, SelPrefix))
            IN IF st.last_hash = Some(h)
               THEN [ret |-> Ret(st, FALSE, "no change", Some(h))] @@ same
               ELSE [ret |-> Ret(st, TRUE, "changed", Some(h))] @@ same
       ELSE IF SeleniumExcept(rnd.exc)
       THEN [ret |-> Ret(st, FALSE, "error", None), driver |-> None,
             browsers |-> Quit(Val(d), q, en.browsers),
             quitted |-> torn \cup {Val(d)}, used |-> d]
       ELSE [ret |-> Raise(st, rnd.exc)] @@ same

(***************************************************************************)
(* check_with_selenium, lines 94-117, with the handle d that ensure_driver *)
(* returned (en is its result), on the outcome rnd of the render and the   *)
(* outcome q of quit().                                                    *)
(***************************************************************************)
check_with_selenium(st, en, rnd, q, torn) ==
    LET d == en.driver
        same == [driver |-> en.driver, browsers |-> en.browsers, quitted |-> torn,
                 used |-> d]
    IN IF en.esc # None
       THEN [ret |-> Raise(st, Val(en.esc)), driver |-> en.driver,
             browsers |-> en.browsers, quitted |-> torn, used |-> None]
       ELSE IF d = None
       THEN [ret |-> Ret(st, FALSE, "no driver", None), driver |-> en.driver,
             browsers |-> en.browsers, quitted |-> torn, used |-> None]
       ELSE IF rnd.kind = "html"
       THEN LET h == simple_hash(Prefix(rnd.text, SelPrefix))
            IN IF st.last_hash = Some(h)
               THEN [ret |-> Ret(st, FALSE, "no change", Some(h))] @@ same
               ELSE [ret |-> Ret([st EXCEPT !.last_hash = Some(h)], TRUE, "changed",
                                 Some(h))] @@ same
       ELSE IF SeleniumExcept(rnd.exc)
       THEN [ret |-> Ret(st, FALSE, "error", None), driver |-> None,
             browsers |-> Quit(Val(d), q, en.browsers),
             quitted |-> torn \cup {Val(d)}, used |-> d]
       ELSE [ret |-> Raise(st, rnd.exc)] @@ same

(***************************************************************************)
(* monitor_loop, lines 142-148, for a site with needs_js True.  A render   *)
(* that returns the page has slept SettleDelay (line 99).                  *)
(***************************************************************************)
CheckSelenium ==
    /\ pc = "check"
    /\ site.needs_js
    /\ \E mk \in MakeOutcomes(made), rnd \in RenderOutcomes, q \in QuitOutcomes,
          d \in Delays :
        LET en == ensure_driver(driver, mk, made, browsers)
            c == check_with_selenium(State[site.name], en, rnd, q, quitted)
            rendered == c.used # None /\ rnd.kind = "html"
        IN /\ Elapse(IF rendered THEN SettleDelay ELSE 0, d)
           /\ State' = [State EXCEPT ![site.name] = c.ret.state]
           /\ driver' = c.driver
           /\ browsers' = c.browsers
           /\ made' = en.made
           /\ quitted' = c.quitted
           /\ origin' = [origin EXCEPT ![site.name] =
                            IF c.ret.state.last_hash # State[site.name].last_hash
                            THEN None ELSE @]
           /\ checking' = checking \ {site.name}
           /\ IF c.ret.esc = None
              THEN /\ pc' = "pause"
                   /\ out' = [name |-> site.name, changed |-> c.ret.changed,
                              reason |-> c.ret.reason, status |-> 0,
                              digest |-> c.ret.digest, supplied |-> None,
                              built |-> en.built, used |-> c.used,
                              failed |-> (CASE en.built = "failed" -> Min(out.failed + 1, MaxFailed)
                                            [] en.built = "ok" -> 0
                                            [] OTHER -> out.failed),
                              report |-> Report(c.ret.changed)]
              ELSE /\ pc' = "terminated"
                   /\ out' = out
    /\ UNCHANGED <<SITES, idx, start, flask>>

\* the variables of monitor_loop and of the functions it calls
loopvars == <<SITES, State, driver, clock, pc, idx, start, browsers, made, quitted, out,
              checking, origin>>

(***************************************************************************)
(* The keep-alive thread, lines 160-167 and 171-172: a GET / arrives at    *)
(* the server that run_flask started.                                      *)
(***************************************************************************)
Request ==
    /\ flask = "listening"
    /\ flask' = "handling"
    /\ UNCHANGED loopvars

(***************************************************************************)
(* home, lines 162-164: the answer "alive".                                *)
(***************************************************************************)
home ==
    /\ flask = "handling"
    /\ flask' = "listening"
    /\ UNCHANGED loopvars

\* the steps of monitor_loop
Loop ==
    \/ Stagger
    \/ Evaluate
    \/ CheckRequests
    \/ CheckSelenium
    \/ Pause
    \/ RoundSleep

Next ==
    \/ Stagger
    \/ Evaluate
    \/ CheckRequests
    \/ CheckSelenium
    \/ Pause
    \/ RoundSleep
    \/ Request
    \/ home

Spec == Init /\ [][Next]_vars

(***************************************************************************)
(* The only way to stop monitor_loop, "while True" at line 129: the        *)
(* process is told to stop from outside and KeyboardInterrupt is raised in *)
(* the main thread, wherever it is.  It is not an Exception, so no handler *)
(* catches it, and there is no finally: block and no stop flag.            *)
(***************************************************************************)
Interrupt ==
    /\ pc \notin {"terminated", "stopped"}
    /\ pc' = "stopped"
    /\ UNCHANGED <<SITES, State, driver, clock, idx, start, browsers, made, quitted, out,
                   checking, origin, flask>>

SpecStop == Init /\ [][Next \/ Interrupt]_vars

(***************************************************************************)
(* Time without an end.  monitor_loop reads the clock only in the          *)
(* difference now - last_run (line 137), so the moment the clock counts    *)
(* from can be moved: Rebase moves it to now, after every step that took   *)
(* time.  A last_run older than the interval of its site is kept at that   *)
(* age: the site is due either way; so is start, which is read for        *)
(* elapsed only (line 153), a value that is not used.                      *)
(***************************************************************************)
Max(a, b) == IF a > b THEN a ELSE b

IntervalOf(n) == SITES[CHOOSE i \in 1..Len(SITES) : SITES[i].name = n].interval

Rebase ==
    /\ clock > 0
    /\ clock' = 0
    /\ State' = [n \in Names(SITES) |->
                    [State[n] EXCEPT !.last_run =
                        IF @ = None THEN None
                        ELSE Some(Max(Val(@) - clock, 0 - IntervalOf(n)))]]
    /\ start' = IF start = None THEN None ELSE Some(Max(Val(start) - clock, 0 - RoundFloor))
    /\ UNCHANGED <<SITES, driver, pc, idx, browsers, made, quitted, out, checking,
                   origin, flask>>

LiveInit == Init /\ SITES \in {ShortSites, WeeklySites}

\* every call of monitor_loop returns (the timeouts of lines 46 and 75) and
\* the main thread is scheduled again and again
LiveLoop == clock = 0 /\ Loop

\* the steps of the main thread; the keep-alive thread shares no variable
\* with it
LiveNext ==
    \/ LiveLoop
    \/ Rebase

LiveSpec ==
    /\ LiveInit
    /\ [][LiveNext]_vars
    /\ WF_vars(LiveLoop)
    /\ WF_vars(Rebase)

TypeOK ==
    /\ SITES \in Configs
    /\ clock \in 0..MaxClock
    /\ pc \in {"stagger", "eval", "check", "pause", "sleep", "terminated", "stopped"}
    /\ idx \in 1..Len(SITES)
    /\ made \in 0..MaxInstances
    /\ browsers \subseteq 1..made
    /\ quitted \subseteq 1..made
    /\ driver \in {None} \cup {Some(i) : i \in 1..made}
    /\ checking \subseteq Names(SITES)
    /\ flask \in {"listening", "handling"}

(***************************************************************************)
(* Vocabulary of the properties.                                           *)
(***************************************************************************)
AllNames == UNION {Names(cfg) : cfg \in Configs}

\* the step in which monitor_loop dispatches the check of the site
Dispatches == pc = "eval" /\ pc' = "check"

\* the step in which the check of the site returns to monitor_loop
Returns == pc = "check" /\ pc' = "pause"

ErrorReasons == {"error", "status", "no driver"}

\* fingerprint and validator of site n are the same before and after the step
KeepsFingerprint(n) ==
    /\ State'[n].last_hash = State[n].last_hash
    /\ State'[n].etag = State[n].etag

\* C1: two successive dispatches of a site are at least its interval apart,
\* whatever the earlier check returned and however long it took, and a site is
\* dispatched only when it was due (never checked, or interval elapsed) at the
\* moment it was evaluated; the dispatch time is what last_run receives.
IntervalFloor ==
    [][Dispatches =>
        /\ State'[site.name].last_run = Some(clock)
        /\ \/ State[site.name].last_run = None
           \/ clock - Val(State[site.name].last_run) >= site.interval]_vars

\* C1 witness: a site is dispatched again right after its own check failed
IntervalFloorWitness ==
    /\ pc = "check"
    /\ out.name = site.name
    /\ out.reason = "error"
    /\ State[site.name].last_run = Some(clock)
    /\ clock >= site.interval

\* C2: a site that was never checked is dispatched the first time it is
\* evaluated, whatever its interval.
NeverCheckedIsDue ==
    [][pc = "eval" /\ State[site.name].last_run = None =>
        pc' = "check" /\ State'[site.name].last_run = Some(clock)]_vars

\* C3: a check that ends in an error (exception, status other than 200 and
\* 304, no driver) leaves last_hash and etag of every site as they were.
ErrorKeepsFingerprint ==
    [][Returns /\ out'.reason \in ErrorReasons =>
        \A n \in Names(SITES) : KeepsFingerprint(n)]_vars

\* C3 witness: a check of a site with a stored fingerprint and a stored
\* validator has ended in an error
ErrorKeepsFingerprintWitness ==
    /\ pc = "pause"
    /\ out.reason \in ErrorReasons
    /\ State[out.name].last_hash # None
    /\ State[out.name].etag # None

\* C4: a check that receives a 304 returns unchanged with "not modified",
\* computes no fingerprint, and leaves last_hash and etag as they were.
NotModifiedIsUnchanged ==
    [][Returns /\ out'.status = 304 =>
        /\ ~out'.changed
        /\ out'.reason = "not modified"
        /\ out'.digest = None
        /\ KeepsFingerprint(site.name)]_vars

\* C4 witness: a 304 that carries another validator than the stored one
NotModifiedWitness ==
    /\ pc = "pause"
    /\ out.status = 304
    /\ out.supplied # None
    /\ out.supplied # State[out.name].etag

\* C5: a render error leaves driver None; a handle on which quit() was called
\* is never held nor rendered with again; and a rendering check that finds
\* driver None builds a new instance before it renders.
RenderErrorRebuilds ==
    /\ [](driver # None => Val(driver) \notin quitted)
    /\ [][Returns /\ site.needs_js =>
            /\ (out'.reason = "error" =>
                    driver' = None /\ Val(out'.used) \in quitted')
            /\ (out'.used # None => Val(out'.used) \notin quitted)
            /\ (driver = None /\ out'.used # None =>
                    /\ out'.built = "ok"
                    /\ made' = made + 1
                    /\ out'.used = Some(made'))]_vars

\* C5 witness: after a render error in the check of one site, the check of
\* another site has built a new instance and rendered with it
RenderErrorRebuildsWitness ==
    /\ pc = "pause"
    /\ out.name = "JSApp2"
    /\ quitted = {1}
    /\ out.built = "ok"
    /\ out.used = Some(2)

\* C6: at most one browser instance is running in every reachable state.
AtMostOneLive == Cardinality(browsers) <= 1

\* C7: a check that computes a fingerprint returns changed exactly when the
\* fingerprint differs from the stored one (always when none is stored) and
\* then stores it; it returns unchanged exactly when they are equal and
\* leaves the stored one; every fetch or render that succeeds computes one.
ChangedIffFingerprintDiffers ==
    [][Returns =>
        LET old == State[site.name].last_hash
            new == out'.digest
        IN /\ (out'.reason \notin ErrorReasons /\ out'.status # 304 => new # None)
           /\ (new # None =>
                /\ out'.changed <=> old # new
                /\ old = None => out'.changed
                /\ out'.changed =>
                      State'[site.name].last_hash = new /\ out'.reason = "changed"
                /\ ~out'.changed =>
                      State'[site.name].last_hash = old /\ out'.reason = "no change")]_vars

\* C7 witness: a check has found the stored fingerprint again
ChangedIffFingerprintDiffersWitness ==
    /\ pc = "pause"
    /\ out.reason = "no change"
    /\ out.digest = State[out.name].last_hash

\* C8: after a 200 response that carries an ETag the stored validator is
\* that ETag, also when the fingerprint is the stored one.
ValidatorFollowsResponse ==
    [][Returns /\ out'.status = 200 /\ out'.supplied # None =>
        State'[site.name].etag = out'.supplied]_vars

\* C9: monitor_loop is never left by an exception: every check returns to
\* the loop, which goes on with the next site of the round or the round sleep
\* (a step of the loop is a step that changes loopvars).
LoopSurvivesErrors ==
    /\ [](pc # "terminated")
    /\ [][pc = "check" => pc' = "pause" /\ idx' = idx]_loopvars
    /\ [][pc = "pause" => pc' = AfterSite /\ idx' = AfterIdx]_loopvars

\* C9 witness: the loop evaluates the second site after the check of the
\* first one ended in an exception
LoopSurvivesErrorsWitness ==
    /\ pc = "eval"
    /\ idx = 2
    /\ out.name = SITES[1].name
    /\ out.reason = "error"

\* C10: a rendering check that finds driver None calls make_driver, however
\* many calls failed before; when the call fails the check returns
\* "no driver" without rendering, driver stays None and no site state changes.
ConstructionFailureRetried ==
    [][pc = "check" /\ site.needs_js /\ driver = None =>
        /\ pc' = "pause"
        /\ out'.built # "no"
        /\ (out'.built = "failed" =>
              /\ ~out'.changed
              /\ out'.reason = "no driver"
              /\ out'.used = None
              /\ driver' = None
              /\ State' = State)]_loopvars

\* C10 witness: make_driver was called again after it had failed, and failed
ConstructionFailureRetriedWitness ==
    /\ pc = "pause"
    /\ out.failed >= 2
    /\ out.reason = "no driver"
    /\ driver = None

\* C11: at most one check is in progress in every reachable state; the
\* sites are evaluated in the order of SITES, a round ending after the last
\* one; a step of the keep-alive thread changes nothing of monitor_loop.
SequentialChecks ==
    /\ [](Cardinality(checking) <= 1)
    /\ [](pc = "check" <=> checking = {site.name})
    /\ [][pc' = "eval" /\ (pc # "eval" \/ idx' # idx) =>
            \/ idx' = idx + 1 /\ pc \in {"eval", "pause"}
            \/ idx' = 1 /\ pc \in {"stagger", "sleep"}]_vars
    /\ [][pc' = "sleep" /\ pc # "sleep" => idx = Len(SITES)]_vars
    /\ [][flask' # flask => UNCHANGED <<State, driver, browsers>>]_vars

\* C11 witness: the keep-alive thread handles a request while the check of
\* the second site is in progress
SequentialChecksWitness ==
    /\ pc = "check"
    /\ idx = 2
    /\ checking = {SITES[2].name}
    /\ flask = "handling"

\* C12: when monitor_loop is stopped it stops between two rounds, never in
\* the middle of one, and the handle is None after the stop.
StopsAtRoundBoundary ==
    [][pc' = "stopped" /\ pc # "stopped" =>
        /\ pc = "sleep"
        /\ driver' = None
        /\ browsers' = {}]_vars

\* C13: every monitored site is dispatched again and again, whatever the
\* checks of the other sites return and however long they take.
CheckedInfinitelyOften ==
    \A n \in AllNames : []<>(n \in Names(SITES) => checking = {n})

\* C14: a rendering check that finds a handle uses it and builds nothing;
\* a handle that is held is the last instance built and is given up only by
\* a render error, so without one the instance is built once; instances are
\* built and quit, and the handle changes, only in the check of a site with
\* needs_js.
EnsureDriverLazy ==
    /\ [](driver # None => Val(driver) = made)
    /\ [][Returns /\ site.needs_js /\ driver # None =>
            /\ out'.built = "no"
            /\ made' = made
            /\ out'.used = driver]_vars
    /\ [][driver # None /\ driver' # driver =>
            driver' = None /\ out'.reason = "error"]_vars
    /\ [][made' # made \/ browsers' # browsers \/ quitted' # quitted \/ driver' # driver =>
            pc = "check" /\ site.needs_js]_vars

\* C14 witness: a rendering check has rendered with the handle built by an
\* earlier check
EnsureDriverLazyWitness ==
    /\ pc = "pause"
    /\ out.built = "no"
    /\ out.used # None
    /\ out.used = driver
    /\ out.reason \in {"changed", "no change"}
    /\ made = 1

\* the outcome that the line printed for a check tells
Outcome(o) ==
    CASE o.report = "CHANGE detected" -> "Changed"
      [] o.report = "No change"       -> "Unchanged"
      [] OTHER                        -> "Error"

\* C15: a check that failed (exception, status other than 200 and 304, no
\* driver) is reported as an error, not as unchanged; every other check is
\* reported as changed or as unchanged.
FailedCheckReportedAsError ==
    [][Returns =>
        /\ out'.reason \in ErrorReasons => Outcome(out') = "Error"
        /\ out'.reason \notin ErrorReasons => Outcome(out') \in {"Changed", "Unchanged"}]_vars

Pacing ==
    /\ [][pc = "check" => pc' = "pause"]_loopvars
    /\ [][pc = "pause" => clock' - clock >= SitePause]_loopvars
    /\ [][pc = "sleep" =>
            /\ pc' = "eval"
            /\ clock' - clock >= RoundFloor
            /\ start' = Some(clock')
            /\ Val(start') - Val(start) >= RoundFloor]_loopvars
    /\ [][pc = "eval" => clock' = clock]_loopvars
    /\ [][start' # start => pc \in {"stagger", "sleep"}]_loopvars

\* C17 witness: a later round starts after a round that took longer than
\* RoundFloor
PacingWitness ==
    /\ pc = "eval"
    /\ idx = 1
    /\ start = Some(clock)
    /\ out.name # ""
    /\ clock > 2 * RoundFloor

\* C18: no step changes the state of a site other than the one the loop is
\* at; and the evaluation of a site that is not due changes nothing but the
\* position of the loop: no site state, no handle, no browser, no report,
\* no time.
FrameOfEvaluation ==
    /\ [][\A n \in Names(SITES) : n # site.name => State'[n] = State[n]]_vars
    /\ [][pc = "eval" /\ pc' # "check" =>
            UNCHANGED <<State, driver, browsers, made, quitted, out, clock, start,
                        checking, origin>>]_loopvars

\* C18 witness: a round is over in which StaticSite, checked in an earlier
\* round, was evaluated and was not due
FrameOfEvaluationWitness ==
    /\ SITES = WeeklySites
    /\ pc = "sleep"
    /\ State["StaticSite"].last_run # None
    /\ Val(start) > Val(State["StaticSite"].last_run)
    /\ State["StaticSite"].last_hash # None

\* C19: a stored validator is the ETag of the response whose content the
\* stored fingerprint is of.
ValidatorOfFingerprint ==
    \A n \in Names(SITES) : State[n].etag # None => State[n].etag = origin[n]

====
